---- MODULE Spec2Model ----
(***************************************************************************)
(* klendathu: implement() request lifecycle, sandboxed evaluator, tool     *)
(* surface, transcript cache and replay.                                   *)
(*                                                                         *)
(* The repository holds two orchestrators over the same evaluator:         *)
(*   "inproc"  - src/src/implement.ts: query() runs in the caller's        *)
(*               process, replay is one combined set_result;               *)
(*   "subproc" - src/unnamed/part_004 (library) + src/unnamed/part_011     *)
(*               (CLI): the agent runs in a child process that reaches the *)
(*               evaluator over a Unix socket, replay is sequential.       *)
(* arch selects the orchestrator and never changes.                        *)
(***************************************************************************)
EXTENDS Integers, Sequences, FiniteSets, TLC

\* ------------------------------------------------------------------ bounds
MaxRequests == 2    \* requests made one after the other
MaxCalls == 2       \* tool calls the agent issues in one request
MaxVar == 6         \* vars.x saturates here

Archs == {"inproc", "subproc"}
\* KLENDATHU_CACHE_MODE of the process (unset reads as normal)
CacheModes == {"normal", "ignore", "force-use"}
\* the message argument of the agent's bail calls
Messages == {"page is closed", "no such element"}
Contexts == {"up", "down"}   \* context.page: a live handle, or one refusing connection

\* -------------------------------------------------- agent-supplied code
\* The function expressions the agent may submit (schema: { n: number.min(1) },
\* the value below standing for n):
\*   incX     async () => { vars.x = (vars.x || 0) + 1; return vars.x; }
\*   retX     async () => (vars.x || 0)
\*   useCtx   async () => { await context.page.goto(); return 1; }
\*   incThrow async () => { vars.x = (vars.x || 0) + 1; throw new Error(); }
Codes == {"incX", "retX", "useCtx", "incThrow"}

Inc(v) == IF v < MaxVar THEN v + 1 ELSE MaxVar

\* vm.runInContext of one function expression against (context, vars):
\* the vars after it, whether it threw, and the value it returned.
RunCode(code, c, v) ==
  CASE code = "incX"   -> [vars |-> Inc(v), threw |-> FALSE, value |-> Inc(v)]
    [] code = "retX"   -> [vars |-> v, threw |-> FALSE, value |-> v]
    [] code = "useCtx" -> [vars |-> v, threw |-> (c = "down"), value |-> IF c = "down" THEN 0 ELSE 1]
    [] OTHER           -> [vars |-> Inc(v), threw |-> TRUE, value |-> 0]

\* schema.safeParse(serialized).success
Valid(value) == value >= 1

\* ------------------------------------------------- completion promise
Pending == [state |-> "pending", value |-> 0, reason |-> ""]

\* A resolve that overwrites an already settled promise.
resolveCompletionOverwrite(p, v) == [state |-> "resolved", value |-> v, reason |-> ""]

\* resolve / reject of `new Promise`: only the first settlement takes effect.
resolveCompletion(p, v) ==
  IF p.state = "pending" THEN [state |-> "resolved", value |-> v, reason |-> ""] ELSE p

rejectCompletion(p, r) ==
  IF p.state = "pending" THEN [state |-> "rejected", value |-> 0, reason |-> r] ELSE p

\* ------------------------------------------------------- vm executor
\* An eval whose context is built around a new, empty vars object.
vmEvalEmptyVars(code, c, v) == RunCode(code, c, 0)

\* VmExecutor.eval: runs the code; a throw propagates to the caller of eval.
vmEval(code, c, v) == RunCode(code, c, v)

\* A setResult that resolves the promise before validating the value.
vmSetResultResolveFirst(run, p) ==
  IF run.threw THEN [ok |-> FALSE, value |-> 0, completion |-> p]
  ELSE [ok |-> Valid(run.value), value |-> IF Valid(run.value) THEN run.value ELSE 0,
        completion |-> resolveCompletion(p, run.value)]

\* VmExecutor.setResult on the outcome `run` of running its code: a throw or
\* a failed validation rethrows before the promise is touched; otherwise the
\* promise is resolved with the serialized value, which is also returned.
vmSetResult(run, p) ==
  IF run.threw \/ ~Valid(run.value)
  THEN [ok |-> FALSE, value |-> 0, completion |-> p]
  ELSE [ok |-> TRUE, value |-> run.value, completion |-> resolveCompletion(p, run.value)]

\* VmExecutor.setBailError
\* new Error(`Agent could not complete the task: ${message}`)
BailError(message) == "Agent could not complete the task: " \o message

setBailError(p, message) == rejectCompletion(p, BailError(message))

\* part_004 96: `CLI process exited with code ${exitCode}` (a killed child
\* closes with code null, held here as -1)
ExitMessage(code) ==
  "CLI process exited with code " \o (IF code = -1 THEN "null" ELSE ToString(code))

\* What a tool hands back to the agent: its text and the isError flag.
ToolReturn(text, isError) == [text |-> text, isError |-> isError]
NoReturn == ToolReturn("", FALSE)

\* mcp-server.ts / server.ts bailTool: `Implementation failed: ${message}`
BailReturn(message) == ToolReturn("Implementation failed: " \o message, TRUE)
\* evalTool / setResultTool: the JSON of the data or "Result computed"; an
\* error is returned as its message, flagged isError.
OkReturn(tool) == ToolReturn(IF tool = "set_result" THEN "Result computed" ELSE "data", FALSE)
ErrReturn == ToolReturn("Error", TRUE)

\* ------------------------------------------------------ cache store
\* A recorded ToolCall: result.error and, for an Ok result, result.data.
Call(tool, code, error, data) == [tool |-> tool, code |-> code, error |-> error, data |-> data]

\* The file at the request's cache path. success holds the JSON value of the
\* "success" field as text. octx, ovars, ovalue and ook are history fields
\* (not part of the file): the context of the request that wrote a
\* success=true transcript, vars when its last Ok set_result ran, the value
\* its completion promise held, and whether that promise was resolved.
File(kind, success, cs) ==
  [kind |-> kind, success |-> success, calls |-> cs,
   octx |-> "", ovars |-> 0, ovalue |-> 0, ook |-> FALSE]

Absent == File("absent", "", <<>>)

\* Files found on disk before the first request: none, an unreadable one, one
\* that is not JSON, hand-edited ones whose success is 1 or false, a
\* transcript holding a call of another tool, and one with no Ok set_result.
InitFiles ==
  { Absent,
    File("unreadable", "", <<>>),
    File("garbage", "", <<>>),
    File("json", "1", <<Call("set_result", "useCtx", FALSE, 1)>>),
    File("json", "false", <<Call("set_result", "useCtx", FALSE, 1)>>),
    File("json", "true", <<Call("eval", "incX", FALSE, 1), Call("some_other_tool", "retX", FALSE, 0),
                           Call("eval", "useCtx", FALSE, 1), Call("set_result", "retX", FALSE, 1)>>),
    File("json", "true", <<Call("eval", "incX", FALSE, 1)>>) }

\* JavaScript truthiness of the parsed success field.
Truthy(s) == s \in {"true", "1"}

\* loadCachedTranscript: null (found = FALSE) when the file does not exist,
\* when reading or JSON.parse throws, and when `!transcript.success`.
loadCachedTranscript(file) ==
  IF file.kind # "json" THEN [found |-> FALSE, calls |-> <<>>]
  ELSE IF ~Truthy(file.success) THEN [found |-> FALSE, calls |-> <<>>]
  ELSE [found |-> TRUE, calls |-> file.calls]

\* Transcript.save followed by saveCachedTranscript: nothing is written for
\* an empty transcript (no calls, m = no messages), otherwise the file is
\* replaced.
TranscriptSave(file, cs, m, success, c, vs, p) ==
  IF Len(cs) = 0 /\ ~m THEN file
  ELSE IF success
       THEN [kind |-> "json", success |-> "true", calls |-> cs, octx |-> c,
             ovars |-> vs, ovalue |-> p.value, ook |-> (p.state = "resolved")]
       ELSE File("json", "false", cs)

Wrote(cs, m, success, before) ==
  IF Len(cs) = 0 /\ ~m THEN before ELSE IF success THEN "true" ELSE "false"

\* ------------------------------------------------------------ replay
IsOkSetResult(call) == call.tool = "set_result" /\ ~call.error

\* A lookup of the final set_result that forgets the reverse().
firstSuccessful(cs) ==
  LET idx == {i \in 1..Len(cs) : IsOkSetResult(cs[i])} IN
  IF idx = {} THEN [found |-> FALSE, code |-> "", data |-> 0]
  ELSE LET k == CHOOSE i \in idx : \A j \in idx : i <= j IN
       [found |-> TRUE, code |-> cs[k].code, data |-> cs[k].data]

\* part_011 143-152 saveIntermediateTranscript: the CLI writes only when
\* cachePath was set, which the lookup block does unless the mode is ignore.
SaveIntermediate(mode, file, cs, m, success, c, vs, p) ==
  IF mode = "ignore" THEN file ELSE TranscriptSave(file, cs, m, success, c, vs, p)
WroteIntermediate(mode, cs, m, success, before) ==
  IF mode = "ignore" THEN before ELSE Wrote(cs, m, success, before)

\* part_011: calls.filter(tool === 'set_result').reverse().find(!result.error)
lastSuccessful(cs) ==
  LET idx == {i \in 1..Len(cs) : IsOkSetResult(cs[i])} IN
  IF idx = {} THEN [found |-> FALSE, code |-> "", data |-> 0]
  ELSE LET k == CHOOSE i \in idx : \A j \in idx : j <= i IN
       [found |-> TRUE, code |-> cs[k].code, data |-> cs[k].data]

\* A replay that never compares the fresh result with the recorded one.
EnvMismatchIgnored(originalWasError, currentIsError) == FALSE

\* part_011: `!originalWasError && currentIsError`
EnvMismatch(originalWasError, currentIsError) == ~originalWasError /\ currentIsError

\* A replay whose success path lacks process.exit(0) and runs on into the agent.
ReplayExitFallsThrough(aborted) == "miss"

\* part_011 112-118: process.exit(0) after a replay that was not aborted; the
\* catch block of an aborted one lets main() continue to the agent.
ReplayExit(aborted) == IF aborted THEN "miss" ELSE "exited"

\* generateCombinedCode: the Ok calls, the last set_result among them, and
\* the evals before it; throws when there is no Ok call or no Ok set_result.
generateCombinedCode(cs) ==
  LET successfulCalls == SelectSeq(cs, LAMBDA call : call.error # TRUE)
      idx == {i \in 1..Len(successfulCalls) : successfulCalls[i].tool = "set_result"}
  IN IF Len(successfulCalls) = 0 \/ idx = {}
     THEN [throws |-> TRUE, evals |-> <<>>, final |-> ""]
     ELSE LET k == CHOOSE i \in idx : \A j \in idx : j <= i
              callsBeforeFinal == SelectSeq(SubSeq(successfulCalls, 1, k - 1),
                                            LAMBDA call : call.tool = "eval")
          IN [throws |-> FALSE,
              evals |-> [i \in 1..Len(callsBeforeFinal) |-> callsBeforeFinal[i].code],
              final |-> successfulCalls[k].code]

\* The combined function's `await (code)();` lines, in order: the first throw
\* ends the function.
RECURSIVE RunEvals(_, _, _)
RunEvals(codes, c, v) ==
  IF Len(codes) = 0 THEN [vars |-> v, threw |-> FALSE, ran |-> 0]
  ELSE LET r == RunCode(Head(codes), c, v) IN
       IF r.threw THEN [vars |-> r.vars, threw |-> TRUE, ran |-> 1]
       ELSE LET rest == RunEvals(Tail(codes), c, r.vars) IN
            [vars |-> rest.vars, threw |-> rest.threw, ran |-> rest.ran + 1]

\* Running the combined function: before is vars when the final set_result
\* body starts, ran the number of recorded calls that were started.
RunCombined(cc, c, v) ==
  LET e == RunEvals(cc.evals, c, v) IN
  IF e.threw
  THEN [vars |-> e.vars, threw |-> TRUE, value |-> 0, before |-> e.vars, ran |-> e.ran]
  ELSE LET r == RunCode(cc.final, c, e.vars) IN
       [vars |-> r.vars, threw |-> r.threw, value |-> r.value, before |-> e.vars,
        ran |-> e.ran + 1]

\* ------------------------------------------------ cache key (part_009)
\* Texts are sequences of characters.
Rep(ch, n) == [i \in 1..n |-> ch]
Lower(ch) == CASE ch = "S" -> "s" [] ch = "A" -> "a" [] OTHER -> ch
IsAlnum(ch) == ch \in {"a", "b", "m", "s", "u", "1"}
SlugMax == 50

RECURSIVE TrimLeft(_, _)
TrimLeft(t, ch) == IF t # <<>> /\ Head(t) = ch THEN TrimLeft(Tail(t), ch) ELSE t
RECURSIVE TrimRight(_, _)
TrimRight(t, ch) ==
  IF t # <<>> /\ t[Len(t)] = ch THEN TrimRight(SubSeq(t, 1, Len(t) - 1), ch) ELSE t
RECURSIVE SkipNonAlnum(_)
SkipNonAlnum(t) == IF t # <<>> /\ ~IsAlnum(Head(t)) THEN SkipNonAlnum(Tail(t)) ELSE t
\* replace(/[^a-z0-9]+/g, '_')
RECURSIVE ReplaceRuns(_)
ReplaceRuns(t) ==
  IF t = <<>> THEN <<>>
  ELSE IF IsAlnum(Head(t)) THEN <<Head(t)>> \o ReplaceRuns(Tail(t))
  ELSE <<"_">> \o ReplaceRuns(SkipNonAlnum(Tail(t)))

\* toLowerCase, trim, substring(0, 50), non-alphanumeric runs to "_", and
\* the underscores at both ends removed.
slugify(text) ==
  LET lower == [i \in 1..Len(text) |-> Lower(text[i])]
      trimmed == TrimRight(TrimLeft(lower, " "), " ")
      cut == SubSeq(trimmed, 1, IF Len(trimmed) < SlugMax THEN Len(trimmed) ELSE SlugMax)
      replaced == ReplaceRuns(cut)
  IN TrimRight(TrimLeft(replaced, "_"), "_")

\* JSON.stringify of a schema object, here the list of its property names
RECURSIVE Members(_)
Members(names) ==
  IF names = <<>> THEN <<>>
  ELSE <<"\"", Head(names), "\"">> \o (IF Len(names) > 1 THEN <<",">> ELSE <<>>)
         \o Members(Tail(names))
JsonStringify(schema) == <<"{">> \o Members(schema) \o <<"}">>

\* createHash('sha256').update(text).digest('hex'), taken as free of
\* collisions: the digest stands for the text it was computed from.
sha256(text) == text

\* A key that leaves the digest out.
getCacheKeySlugOnly(prompt, schema) == [slug |-> slugify(prompt), hash |-> <<>>]

\* `${slug}_${hash}` with hash = sha256(`${prompt}:::${JSON.stringify(schema)}`).
\* The digest has a fixed length, so the key determines both parts.
getCacheKey(prompt, schema) ==
  [slug |-> slugify(prompt),
   hash |-> sha256(prompt \o <<":", ":", ":">> \o JsonStringify(schema))]

\* join(cacheDir, `${cacheKey}.json`), cacheDir being KLENDATHU_CACHE or
\* <project root>/.klendathu/cache of the process
getCachePath(cacheDir, cacheKey) == [dir |-> cacheDir, name |-> cacheKey]

\* ---------------------------------------- socket server (library side)
\* POST /eval: the evaluator's eval; a throw becomes the body {error: true}.
ServerEval(code, c, v) ==
  LET r == vmEval(code, c, v) IN [vars |-> r.vars, error |-> r.threw, result |-> r.value]

\* POST /complete {code}: the evaluator's setResult; a throw or a failed
\* validation becomes the body {error: true}.
ServerComplete(code, c, v, p) ==
  LET r == RunCode(code, c, v)
      s == vmSetResult(r, p)
  IN [vars |-> r.vars, error |-> ~s.ok, result |-> s.value, completion |-> s.completion]

\* POST /complete {failure: true, message}
ServerFailure(p, message) == setBailError(p, message)

\* The server was handed options.signal: on cancellation the completion
\* promise is rejected with a cancellation failure.
ServerAbort(p) == rejectCompletion(p, "cancelled")

\* -------------------------------------------------------------- state
VARIABLES
  arch,            \* which orchestrator this program is
  cacheFile,       \* the file at the request's cache path
  req,             \* requests started so far
  ctx,             \* the request's context
  pc,              \* where the request is (see the actions)
  vars,            \* vars.x of the evaluator in use (0: unset)
  completion,      \* the completion promise of the evaluator in use
  calls,           \* Transcript.calls
  msgs,            \* Transcript.messages is not empty
  computedResult,  \* the orchestrator's computedResult (set = not undefined)
  caller,          \* what the caller of implement() has observed
  queried,         \* query() was called in this request
  posts,           \* the posts of the CLI's replay loop, in order
  nReplayed,       \* recorded calls the request has re-executed so far
  ri,              \* replay: index of the next recorded call
  exitCode,        \* subproc: exit code of the CLI process
  liveCalls,       \* tool calls the agent has issued in this request
  mismatch,        \* a replay of this request was aborted
  lastWrite,       \* success flag of the request's last transcript write
  varsAtSet,       \* vars when the request's last successful set_result started
  lastOp,          \* the last evaluator operation of the request
  cacheMode,       \* KLENDATHU_CACHE_MODE of the process
  callerSignals,   \* the caller passes options.signal with its requests
  signal,          \* options.signal of the request: absent, armed, preaborted, aborted
  toolReturn,      \* what the last tool call returned to the agent
  forceUseCache,   \* the caller passes options.forceUseCache = true
  serverListening, \* the server that implement() started is listening
  probe            \* inputs and outputs of the pure functions under study

vars_all == <<arch, cacheFile, req, ctx, pc, vars, completion, calls, msgs, computedResult,
              caller, queried, posts, nReplayed, ri, exitCode, liveCalls, mismatch,
              lastWrite, varsAtSet, lastOp, cacheMode, callerSignals, signal, toolReturn,
              forceUseCache, serverListening, probe>>

\* what no action of a request changes
env == <<cacheMode, callerSignals, forceUseCache, probe>>

\* everything but probe
Rest == <<arch, cacheFile, req, ctx, pc, vars, completion, calls, msgs, computedResult,
          caller, queried, posts, nReplayed, ri, exitCode, liveCalls, mismatch,
          lastWrite, varsAtSet, lastOp, cacheMode, callerSignals, signal, toolReturn,
          forceUseCache, serverListening>>

\* const cacheMode = process.env.KLENDATHU_CACHE_MODE || 'normal' as the
\* orchestrator a reads it: implement.ts reads the environment of the
\* caller's process and no option; the CLI reads the environment runAgent
\* spawned it with, where options.forceUseCache has set force-use.
ReadCacheMode(a, envMode, force) ==
  IF a = "subproc" /\ force THEN "force-use" ELSE envMode

Mode == ReadCacheMode(arch, cacheMode, forceUseCache)

NoResult == [set |-> FALSE, value |-> 0]
NoCaller == [state |-> "pending", value |-> 0, reason |-> ""]
NoOp == [phase |-> "none", tool |-> "", recOk |-> FALSE, err |-> FALSE, value |-> 0]
Op(phase, tool, recOk, err, value) ==
  [phase |-> phase, tool |-> tool, recOk |-> recOk, err |-> err, value |-> value]
Post(tool, code) == [tool |-> tool, code |-> code]

\* The save after the message loop and the one of the catch block:
\* transcript.save(cachePath, success) in implement.ts (137-140, 148-152),
\* saveIntermediateTranscript(success) in the CLI (part_011 206-218).
SaveAtEnd(success) ==
  IF arch = "subproc"
  THEN SaveIntermediate(Mode, cacheFile, calls, msgs, success, ctx, varsAtSet, completion)
  ELSE TranscriptSave(cacheFile, calls, msgs, success, ctx, varsAtSet, completion)
WroteAtEnd(success) ==
  IF arch = "subproc"
  THEN WroteIntermediate(Mode, calls, msgs, success, lastWrite)
  ELSE Wrote(calls, msgs, success, lastWrite)

Fulfilled(v) == [state |-> "fulfilled", value |-> v, reason |-> ""]
Rejected(r) == [state |-> "rejected", value |-> 0, reason |-> r]

Idle ==
  /\ req = 0
  /\ ctx = "up"
  /\ pc = "idle"
  /\ vars = 0
  /\ completion = Pending
  /\ calls = <<>>
  /\ msgs = FALSE
  /\ computedResult = NoResult
  /\ caller = NoCaller
  /\ queried = FALSE
  /\ posts = <<>>
  /\ nReplayed = 0
  /\ ri = 1
  /\ exitCode = 0
  /\ liveCalls = 0
  /\ mismatch = FALSE
  /\ lastWrite = "none"
  /\ varsAtSet = 0
  /\ lastOp = NoOp
  /\ signal = "absent"
  /\ toolReturn = NoReturn
  /\ serverListening = FALSE

InitRequest == arch \in Archs /\ cacheFile \in InitFiles /\ probe = <<>> /\ Idle

\* A process with KLENDATHU_CACHE_MODE unset whose callers pass no signal.
Init ==
  cacheMode = "normal" /\ callerSignals = FALSE /\ forceUseCache = FALSE /\ InitRequest

\* implement(prompt, context, schema): a new request with its own evaluator
\* (vars = {}, a fresh completion promise) and transcript.
StartRequest(c) ==
  /\ pc \in {"idle", "done"}
  /\ req < MaxRequests
  /\ req' = req + 1
  /\ ctx' = c
  /\ pc' = "ready"
  /\ vars' = 0
  /\ signal' \in (IF callerSignals THEN {"armed", "preaborted"} ELSE {"absent"})
  /\ completion' = IF arch = "subproc" /\ signal' = "preaborted" THEN ServerAbort(Pending)
                   ELSE Pending
  /\ calls' = <<>>
  /\ msgs' = FALSE
  /\ computedResult' = NoResult
  /\ caller' = NoCaller
  /\ queried' = FALSE
  /\ posts' = <<>>
  /\ nReplayed' = 0
  /\ ri' = 1
  /\ exitCode' = 0
  /\ liveCalls' = 0
  /\ mismatch' = FALSE
  /\ lastWrite' = "none"
  /\ varsAtSet' = 0
  /\ lastOp' = NoOp
  /\ toolReturn' = NoReturn
  /\ serverListening' = (arch = "subproc")
  /\ UNCHANGED <<env, arch, cacheFile>>

\* `else if (shouldForceCache)`: no transcript to replay in force-use mode
ForceUseRejects(mode, found) == mode = "force-use" /\ ~found

\* A lookup that loads the transcript in every mode.
LookupOutcomeAlways(mode, file) ==
  [found |-> loadCachedTranscript(file).found,
   rejects |-> ForceUseRejects(mode, loadCachedTranscript(file).found)]

\* `if (!shouldIgnoreCache) cachedTranscript = loadCachedTranscript(cachePath)`
\* and what the branches on it decide: replay (found) or failure (rejects).
LookupOutcome(mode, file) ==
  LET found == mode # "ignore" /\ loadCachedTranscript(file).found
  IN [found |-> found, rejects |-> ForceUseRejects(mode, found)]

\* implement.ts 56-73, part_011 56-128: unless the mode is ignore,
\* cachedTranscript = loadCachedTranscript(cachePath). Without a transcript
\* force-use mode fails the request: implement.ts throws to the caller, the
\* CLI posts /complete {failure: true} (a failing post is swallowed) and
\* exits with code 1.
CacheLookup ==
  /\ pc = "ready"
  /\ LET found == LookupOutcome(Mode, cacheFile).found
         rejects == LookupOutcome(Mode, cacheFile).rejects
     IN /\ pc' = IF found THEN "hit"
                 ELSE IF ~rejects THEN "miss"
                 ELSE IF arch = "inproc" THEN "done" ELSE "exited"
        /\ caller' = IF rejects /\ arch = "inproc"
                     THEN Rejected("Cache required but not found")
                     ELSE caller
        /\ exitCode' = IF rejects /\ arch = "subproc" THEN 1 ELSE exitCode
        /\ \E delivered \in BOOLEAN :
             completion' = IF rejects /\ arch = "subproc" /\ delivered
                           THEN ServerFailure(completion, "Cache required but cache not found")
                           ELSE completion
  /\ UNCHANGED <<env, serverListening, signal, toolReturn, arch, cacheFile, req, ctx, vars, calls, msgs,
                 computedResult, queried, posts, nReplayed, ri, liveCalls, mismatch, lastWrite,
                 varsAtSet, lastOp>>

\* implement.ts, cache hit: generateCombinedCode (outside the try: its throw
\* rejects the caller), then setResult(combinedCode) on a new evaluator; its
\* value is returned, its throw is swallowed and execution continues live.
ReplayCombined ==
  /\ pc = "hit"
  /\ arch = "inproc"
  /\ LET cc == generateCombinedCode(loadCachedTranscript(cacheFile).calls)
         run == RunCombined(cc, ctx, 0)
         res == vmSetResult(run, Pending)
     IN IF cc.throws
        THEN /\ caller' = Rejected("codegen")
             /\ pc' = "done"
             /\ UNCHANGED <<vars, completion, posts, nReplayed, mismatch, varsAtSet, lastOp>>
        ELSE /\ vars' = run.vars
             /\ completion' = res.completion
             /\ posts' = posts
             /\ nReplayed' = run.ran
             /\ lastOp' = Op("replay", "set_result", TRUE, ~res.ok, res.value)
             /\ varsAtSet' = IF res.ok THEN run.before ELSE varsAtSet
             /\ caller' = IF res.ok THEN Fulfilled(res.value) ELSE caller
             /\ mismatch' = ~res.ok
             /\ pc' = IF res.ok THEN "done" ELSE "miss"
  /\ UNCHANGED <<env, serverListening, signal, toolReturn, arch, cacheFile, req, ctx, calls, msgs, computedResult, queried, ri,
                 exitCode, liveCalls, lastWrite>>

\* part_011, cache hit: without an Ok set_result the CLI exits with code 1.
ReplayBegin ==
  /\ pc = "hit"
  /\ arch = "subproc"
  /\ IF lastSuccessful(loadCachedTranscript(cacheFile).calls).found
     THEN pc' = "replay" /\ exitCode' = exitCode
     ELSE pc' = "exited" /\ exitCode' = 1
  /\ ri' = 1
  /\ UNCHANGED <<env, serverListening, signal, toolReturn, arch, cacheFile, req, ctx, vars, completion, calls, msgs, computedResult,
                 caller, queried, posts, nReplayed, liveCalls, mismatch, lastWrite, varsAtSet, lastOp>>

\* part_011, one iteration of `for (const call of calls)`: an eval is posted
\* to /eval (delivered: the post did not throw), any other call is skipped.
ReplayCall ==
  /\ pc = "replay"
  /\ arch = "subproc"
  /\ ri <= Len(loadCachedTranscript(cacheFile).calls)
  /\ LET call == loadCachedTranscript(cacheFile).calls[ri] IN
     IF call.tool # "eval"
     THEN /\ ri' = ri + 1
          /\ UNCHANGED <<pc, vars, posts, nReplayed, mismatch, lastOp>>
     ELSE \E delivered \in BOOLEAN :
            LET s == ServerEval(call.code, ctx, vars)
                aborted == IF delivered THEN EnvMismatch(call.error = TRUE, s.error = TRUE)
                           ELSE TRUE
            IN /\ posts' = Append(posts, Post("eval", call.code))
               /\ nReplayed' = IF delivered THEN nReplayed + 1 ELSE nReplayed
               /\ vars' = IF delivered THEN s.vars ELSE vars
               /\ lastOp' = Op("replay", "eval", ~call.error, IF delivered THEN s.error ELSE TRUE,
                               IF delivered THEN s.result ELSE 0)
               /\ mismatch' = aborted
               /\ pc' = IF aborted THEN "miss" ELSE "replay"
               /\ ri' = IF aborted THEN ri ELSE ri + 1
  /\ UNCHANGED <<env, serverListening, signal, toolReturn, arch, cacheFile, req, ctx, completion, calls, msgs, computedResult, caller,
                 queried, exitCode, liveCalls, lastWrite, varsAtSet>>

\* part_011, after the loop: lastSuccessful.code is posted to /complete; on
\* success the recorded data is printed and the CLI exits with code 0.
ReplayComplete ==
  /\ pc = "replay"
  /\ arch = "subproc"
  /\ ri > Len(loadCachedTranscript(cacheFile).calls)
  /\ \E delivered \in BOOLEAN :
       LET last == lastSuccessful(loadCachedTranscript(cacheFile).calls)
           s == ServerComplete(last.code, ctx, vars, completion)
           aborted == IF delivered THEN EnvMismatch(FALSE, s.error = TRUE) ELSE TRUE
       IN /\ posts' = Append(posts, Post("set_result", last.code))
          /\ nReplayed' = IF delivered THEN nReplayed + 1 ELSE nReplayed
          /\ vars' = IF delivered THEN s.vars ELSE vars
          /\ completion' = IF delivered THEN s.completion ELSE completion
          /\ lastOp' = Op("replay", "set_result", TRUE, IF delivered THEN s.error ELSE TRUE,
                          IF delivered THEN s.result ELSE 0)
          /\ varsAtSet' = IF delivered /\ ~s.error THEN vars ELSE varsAtSet
          /\ mismatch' = aborted
          /\ pc' = ReplayExit(aborted)
          /\ exitCode' = 0
  /\ UNCHANGED <<env, serverListening, signal, toolReturn, arch, cacheFile, req, ctx, calls, msgs, computedResult, caller, queried, ri,
                 liveCalls, lastWrite>>

\* ------------------------------------------------------ live execution
\* implement.ts 76-125: a new evaluator, a new Transcript, query().
\* part_011 131-187: a new Transcript, query(); the evaluator stays the one
\* the library created for the request (part_004 63).
StartAgent ==
  /\ pc = "miss"
  /\ pc' = "live"
  /\ queried' = TRUE
  /\ vars' = IF arch = "inproc" THEN 0 ELSE vars
  /\ completion' = IF arch = "inproc" THEN Pending ELSE completion
  /\ posts' = <<>>
  /\ ri' = 1
  /\ UNCHANGED <<env, serverListening, signal, toolReturn, arch, cacheFile, req, ctx, calls, msgs, computedResult, caller, nReplayed,
                 exitCode, liveCalls, mismatch, lastWrite, varsAtSet, lastOp>>

AgentMayCall == pc = "live" /\ liveCalls < MaxCalls

\* mcp-server.ts evalTool: the call is recorded only when eval returns.
InProcEval(code) ==
  /\ AgentMayCall
  /\ arch = "inproc"
  /\ LET r == vmEval(code, ctx, vars) IN
       /\ vars' = r.vars
       /\ calls' = IF r.threw THEN calls ELSE Append(calls, Call("eval", code, FALSE, r.value))
       /\ lastOp' = Op("live", "eval", FALSE, r.threw, r.value)
       /\ toolReturn' = IF r.threw THEN ErrReturn ELSE OkReturn("eval")
  /\ liveCalls' = liveCalls + 1
  /\ UNCHANGED <<env, serverListening, signal, arch, cacheFile, req, ctx, pc, completion, msgs, computedResult, caller,
                 queried, posts, nReplayed, ri, exitCode, mismatch, lastWrite, varsAtSet>>

\* mcp-server.ts setResultTool: on success the call is recorded and
\* onSetResult stores the value; a throw is only reported to the agent.
InProcSetResult(code) ==
  /\ AgentMayCall
  /\ arch = "inproc"
  /\ LET r == RunCode(code, ctx, vars)
         s == vmSetResult(r, completion)
     IN /\ vars' = r.vars
        /\ completion' = s.completion
        /\ calls' = IF s.ok THEN Append(calls, Call("set_result", code, FALSE, s.value)) ELSE calls
        /\ computedResult' = IF s.ok THEN [set |-> TRUE, value |-> s.value] ELSE computedResult
        /\ varsAtSet' = IF s.ok THEN vars ELSE varsAtSet
        /\ lastOp' = Op("live", "set_result", FALSE, ~s.ok, s.value)
        /\ toolReturn' = IF s.ok THEN OkReturn("set_result") ELSE ErrReturn
  /\ liveCalls' = liveCalls + 1
  /\ UNCHANGED <<env, serverListening, signal, arch, cacheFile, req, ctx, pc, msgs, caller, queried, posts, nReplayed, ri, exitCode,
                 mismatch, lastWrite>>

\* mcp-server.ts bailTool
InProcBail(message) ==
  /\ AgentMayCall
  /\ arch = "inproc"
  /\ completion' = setBailError(completion, message)
  /\ lastOp' = Op("live", "bail", FALSE, FALSE, 0)
  /\ toolReturn' = BailReturn(message)
  /\ liveCalls' = liveCalls + 1
  /\ UNCHANGED <<env, serverListening, signal, arch, cacheFile, req, ctx, pc, vars, calls, msgs, computedResult, caller,
                 queried, posts, nReplayed, ri, exitCode, mismatch, lastWrite, varsAtSet>>

\* klendathu-cli server.ts evalTool: POST /eval; the call is recorded with the
\* body's error flag and the transcript saved with success=false; a post
\* that throws ends the CLI with exit code 1.
HttpEval(code) ==
  /\ AgentMayCall
  /\ arch = "subproc"
  /\ \E delivered \in BOOLEAN :
       LET s == ServerEval(code, ctx, vars)
           cs == Append(calls, Call("eval", code, s.error, IF s.error THEN 0 ELSE s.result))
       IN IF delivered
          THEN /\ vars' = s.vars
               /\ calls' = cs
               /\ cacheFile' = SaveIntermediate(Mode, cacheFile, cs, msgs, FALSE, ctx, varsAtSet,
                                                completion)
               /\ lastWrite' = WroteIntermediate(Mode, cs, msgs, FALSE, lastWrite)
               /\ lastOp' = Op("live", "eval", FALSE, s.error, s.result)
               /\ toolReturn' = IF s.error THEN ErrReturn ELSE OkReturn("eval")
               /\ UNCHANGED <<pc, exitCode>>
          ELSE /\ pc' = "exited"
               /\ exitCode' = 1
               /\ lastOp' = Op("live", "eval", FALSE, TRUE, 0)
               /\ toolReturn' = NoReturn
               /\ UNCHANGED <<vars, calls, cacheFile, lastWrite>>
  /\ liveCalls' = liveCalls + 1
  /\ UNCHANGED <<env, serverListening, signal, arch, req, ctx, completion, msgs, computedResult, caller, queried, posts, nReplayed, ri,
                 mismatch, varsAtSet>>

\* klendathu-cli server.ts setResultTool: POST /complete {code}; the call is
\* recorded and saved as for eval; an Ok body also stores computedResult.
HttpSetResult(code) ==
  /\ AgentMayCall
  /\ arch = "subproc"
  /\ \E delivered \in BOOLEAN :
       LET s == ServerComplete(code, ctx, vars, completion)
           cs == Append(calls, Call("set_result", code, s.error, IF s.error THEN 0 ELSE s.result))
       IN IF delivered
          THEN /\ vars' = s.vars
               /\ completion' = s.completion
               /\ calls' = cs
               /\ cacheFile' = SaveIntermediate(Mode, cacheFile, cs, msgs, FALSE, ctx, varsAtSet,
                                                completion)
               /\ lastWrite' = WroteIntermediate(Mode, cs, msgs, FALSE, lastWrite)
               /\ computedResult' = IF s.error THEN computedResult
                                    ELSE [set |-> TRUE, value |-> s.result]
               /\ varsAtSet' = IF s.error THEN varsAtSet ELSE vars
               /\ lastOp' = Op("live", "set_result", FALSE, s.error, s.result)
               /\ toolReturn' = IF s.error THEN ErrReturn ELSE OkReturn("set_result")
               /\ UNCHANGED <<pc, exitCode>>
          ELSE /\ pc' = "exited"
               /\ exitCode' = 1
               /\ lastOp' = Op("live", "set_result", FALSE, TRUE, 0)
               /\ toolReturn' = NoReturn
               /\ UNCHANGED <<vars, completion, calls, cacheFile, lastWrite, computedResult,
                              varsAtSet>>
  /\ liveCalls' = liveCalls + 1
  /\ UNCHANGED <<env, serverListening, signal, arch, req, ctx, msgs, caller, queried, posts, nReplayed, ri, mismatch>>

\* klendathu-cli server.ts bailTool: POST /complete {failure: true}; a post
\* that throws is reported to the agent and nothing else happens.
HttpBail(message) ==
  /\ AgentMayCall
  /\ arch = "subproc"
  /\ \E delivered \in BOOLEAN :
       /\ completion' = IF delivered THEN ServerFailure(completion, message) ELSE completion
       /\ lastOp' = Op("live", "bail", FALSE, ~delivered, 0)
       /\ toolReturn' = IF delivered THEN BailReturn(message)
                        ELSE ToolReturn("Failed to send bail message", TRUE)
  /\ liveCalls' = liveCalls + 1
  /\ UNCHANGED <<env, serverListening, signal, arch, cacheFile, req, ctx, pc, vars, calls, msgs, computedResult, caller,
                 queried, posts, nReplayed, ri, exitCode, mismatch, lastWrite, varsAtSet>>

\* One iteration of `for await (const message of result)`: the message is
\* recorded (the CLI also saves the transcript with success=false) and the
\* loop is left once computedResult is set.
PumpMessage ==
  /\ pc = "live"
  /\ msgs' = TRUE
  /\ cacheFile' = IF arch = "subproc"
                  THEN SaveIntermediate(Mode, cacheFile, calls, TRUE, FALSE, ctx, varsAtSet,
                                        completion)
                  ELSE cacheFile
  /\ lastWrite' = IF arch = "subproc"
                  THEN WroteIntermediate(Mode, calls, TRUE, FALSE, lastWrite)
                  ELSE lastWrite
  /\ pc' = IF computedResult.set THEN "final" ELSE "live"
  /\ UNCHANGED <<env, serverListening, signal, toolReturn, arch, req, ctx, vars, completion, calls, computedResult, caller, queried,
                 posts, nReplayed, ri, exitCode, liveCalls, mismatch, varsAtSet, lastOp>>

\* The agent's message stream ends.
StreamEnd ==
  /\ pc = "live"
  /\ pc' = "final"
  /\ UNCHANGED <<env, serverListening, signal, toolReturn, arch, cacheFile, req, ctx, vars, completion, calls, msgs, computedResult,
                 caller, queried, posts, nReplayed, ri, exitCode, liveCalls, mismatch, lastWrite,
                 varsAtSet, lastOp>>

\* The agent's message stream throws: the catch block saves the transcript
\* with success=false, then rethrows (implement.ts) or exits with code 1 (CLI).
StreamThrow ==
  /\ pc = "live"
  /\ cacheFile' = SaveAtEnd(FALSE)
  /\ lastWrite' = WroteAtEnd(FALSE)
  /\ IF arch = "inproc"
     THEN caller' = Rejected("agent_error") /\ pc' = "done" /\ exitCode' = exitCode
     ELSE caller' = caller /\ pc' = "exited" /\ exitCode' = 1
  /\ UNCHANGED <<env, serverListening, signal, toolReturn, arch, req, ctx, vars, completion, calls, msgs, computedResult, queried,
                 posts, nReplayed, ri, liveCalls, mismatch, varsAtSet, lastOp>>

\* A final save that always marks the transcript successful.
FinalSuccessAlways(cr) == TRUE

\* success = computedResult !== undefined
FinalSuccess(cr) == cr.set

\* After the loop: the final save. implement.ts goes on to await the
\* completion promise; the CLI's main() returns and the process exits with 0.
FinalSave ==
  /\ pc = "final"
  /\ cacheFile' = SaveAtEnd(FinalSuccess(computedResult))
  /\ lastWrite' = WroteAtEnd(FinalSuccess(computedResult))
  /\ pc' = IF arch = "inproc" THEN "awaiting" ELSE "exited"
  /\ exitCode' = IF arch = "inproc" THEN exitCode ELSE 0
  /\ UNCHANGED <<env, serverListening, signal, toolReturn, arch, req, ctx, vars, completion, calls, msgs, computedResult, caller,
                 queried, posts, nReplayed, ri, liveCalls, mismatch, varsAtSet, lastOp>>

\* part_004 87-97: runAgent returned; a non-zero exit code sets the bail error.
ProcessExited ==
  /\ pc = "exited"
  /\ completion' = IF exitCode # 0 THEN setBailError(completion, ExitMessage(exitCode)) ELSE completion
  /\ pc' = "awaiting"
  /\ UNCHANGED <<env, serverListening, signal, toolReturn, arch, cacheFile, req, ctx, vars, calls, msgs, computedResult, caller,
                 queried, posts, nReplayed, ri, exitCode, liveCalls, mismatch, lastWrite, varsAtSet,
                 lastOp>>

\* A server closed only on the way out of a successful await.
CloseOnReturn(listening, outcome) == IF outcome = "resolved" THEN FALSE ELSE listening

\* part_004 107-112: `finally { await server.close(); }` runs on return and
\* on throw, before the promise of implement() settles.
CloseInFinally(listening, outcome) == FALSE

\* `await vmExecutor.getCompletion()` continues once the promise is settled:
\* its value is returned, its rejection is thrown to the caller (implement.ts
\* first saves the transcript with success=false in its catch block).
AwaitCompletion ==
  /\ pc = "awaiting"
  /\ completion.state # "pending"
  /\ caller' = IF completion.state = "resolved" THEN Fulfilled(completion.value)
               ELSE Rejected(completion.reason)
  /\ cacheFile' = IF arch = "inproc" /\ completion.state = "rejected"
                  THEN TranscriptSave(cacheFile, calls, msgs, FALSE, ctx, varsAtSet, completion)
                  ELSE cacheFile
  /\ lastWrite' = IF arch = "inproc" /\ completion.state = "rejected"
                  THEN Wrote(calls, msgs, FALSE, lastWrite)
                  ELSE lastWrite
  /\ serverListening' = CloseInFinally(serverListening, completion.state)
  /\ pc' = "done"
  /\ UNCHANGED <<env, signal, toolReturn, arch, req, ctx, vars, completion, calls, msgs, computedResult, queried,
                 posts, nReplayed, ri, exitCode, liveCalls, mismatch, varsAtSet, lastOp>>

Next ==
  \/ \E c \in Contexts : StartRequest(c)
  \/ CacheLookup
  \/ ReplayCombined
  \/ ReplayBegin
  \/ ReplayCall
  \/ ReplayComplete
  \/ StartAgent
  \/ \E code \in Codes : InProcEval(code)
  \/ \E code \in Codes : InProcSetResult(code)
  \/ \E message \in Messages : InProcBail(message)
  \/ \E code \in Codes : HttpEval(code)
  \/ \E code \in Codes : HttpSetResult(code)
  \/ \E message \in Messages : HttpBail(message)
  \/ PumpMessage
  \/ StreamEnd
  \/ StreamThrow
  \/ FinalSave
  \/ ProcessExited
  \/ AwaitCompletion

Spec == Init /\ [][Next]_vars_all

\* options.signal fires during a request. implement.ts never reads the
\* signal. part_004 hands it to the server and to runAgent, whose listener
\* (part_006 161-166) sends SIGTERM to the CLI while it runs: the child
\* closes with exit code null (held as -1).
Abort ==
  /\ signal = "armed"
  /\ pc \notin {"idle", "done"}
  /\ signal' = "aborted"
  /\ completion' = IF arch = "subproc" THEN ServerAbort(completion) ELSE completion
  /\ IF arch = "subproc" /\ pc \in {"ready", "hit", "replay", "miss", "live", "final"}
     THEN pc' = "exited" /\ exitCode' = -1
     ELSE UNCHANGED <<pc, exitCode>>
  /\ UNCHANGED <<env, serverListening, toolReturn, arch, cacheFile, req, ctx, vars, calls, msgs, computedResult,
                 caller, queried, posts, nReplayed, ri, liveCalls, mismatch, lastWrite,
                 varsAtSet, lastOp>>

NextCancel == Next \/ Abort

\* Callers that pass a cancellation signal with every request.
InitCancel ==
  cacheMode = "normal" /\ callerSignals = TRUE /\ forceUseCache = FALSE /\ InitRequest

SpecCancel == InitCancel /\ [][NextCancel]_vars_all

\* A tool call that the agent issued together with its set_result and whose
\* response reaches the CLI after main() has left the message loop and made
\* its final save (the CLI process lives on while the post is pending):
\* server.ts evalTool goes on to onToolCall, which records the call and
\* saves the transcript with success=false (part_011 163-169).
LateToolCall(code) ==
  /\ arch = "subproc"
  /\ pc = "exited" /\ exitCode = 0 /\ queried
  /\ liveCalls < MaxCalls
  /\ LET s == ServerEval(code, ctx, vars)
         cs == Append(calls, Call("eval", code, s.error, IF s.error THEN 0 ELSE s.result))
     IN /\ vars' = s.vars
        /\ calls' = cs
        /\ cacheFile' = SaveIntermediate(Mode, cacheFile, cs, msgs, FALSE, ctx, varsAtSet,
                                         completion)
        /\ lastWrite' = WroteIntermediate(Mode, cs, msgs, FALSE, lastWrite)
        /\ lastOp' = Op("live", "eval", FALSE, s.error, s.result)
        /\ toolReturn' = IF s.error THEN ErrReturn ELSE OkReturn("eval")
  /\ liveCalls' = liveCalls + 1
  /\ UNCHANGED <<env, serverListening, signal, arch, req, ctx, pc, completion, msgs, computedResult, caller,
                 queried, posts, nReplayed, ri, exitCode, mismatch, varsAtSet>>

NextLate == Next \/ \E code \in Codes : LateToolCall(code)

\* Agents that issue tool calls in parallel.
SpecLate == Init /\ [][NextLate]_vars_all

\* ------------------------------------------------- writes to the store
\* A save that lets the errors of mkdirSync and writeFileSync out.
saveCachedTranscriptThrows(file, data, mkdirOk, writeOk) ==
  [file |-> IF mkdirOk /\ writeOk THEN data ELSE file, threw |-> ~(mkdirOk /\ writeOk)]

\* saveCachedTranscript: mkdirSync(cacheDir, {recursive}) and writeFileSync
\* inside try; the catch block only traces. file is the file at the cache
\* path before the call, data what is to be written.
saveCachedTranscript(file, data, mkdirOk, writeOk) ==
  [file |-> IF mkdirOk /\ writeOk THEN data ELSE file, threw |-> FALSE]

\* Transcript.save(cachePath, success): returns without a write for an empty
\* transcript, else hands its data to saveCachedTranscript; what
\* saveCachedTranscript throws, save throws.
TranscriptSaveOutcome(file, cs, m, success, mkdirOk, writeOk) ==
  IF Len(cs) = 0 /\ ~m THEN [file |-> file, threw |-> FALSE]
  ELSE saveCachedTranscript(file, File("json", IF success THEN "true" ELSE "false", cs),
                            mkdirOk, writeOk)

StoreCalls ==
  { <<>>, <<Call("eval", "incX", FALSE, 1)>>,
    <<Call("eval", "incThrow", TRUE, 0), Call("set_result", "retX", FALSE, 1)>> }

StoreProbes ==
  [before : InitFiles, calls : StoreCalls, msgs : BOOLEAN, success : BOOLEAN,
   mkdirOk : BOOLEAN, writeOk : BOOLEAN, after : {Absent}, threw : {FALSE}, saved : {FALSE}]

InitStore ==
  /\ arch = "inproc" /\ cacheFile = Absent /\ cacheMode = "normal" /\ callerSignals = FALSE
  /\ forceUseCache = FALSE
  /\ Idle
  /\ probe \in StoreProbes

\* the orchestrator saves its transcript
SaveTranscript ==
  /\ ~probe.saved
  /\ LET o == TranscriptSaveOutcome(probe.before, probe.calls, probe.msgs, probe.success,
                                    probe.mkdirOk, probe.writeOk)
     IN probe' = [probe EXCEPT !.after = o.file, !.threw = o.threw, !.saved = TRUE]
  /\ UNCHANGED Rest

NextStore == SaveTranscript

SpecStore == InitStore /\ [][NextStore]_vars_all

\* ----------------------------------------------------- project root
\* The working directory and its ancestors: dirs[1] is process.cwd(),
\* dirs[Len(dirs)] is "/", each given by the markers it contains.
MaxDirs == 3
Markers == {".klendathu", ".git"}
DirChains == UNION {[1..n -> SUBSET Markers] : n \in 1..MaxDirs}

\* The loop of findProjectRoot from directory i on: the first directory
\* below "/" holding `.klendathu` or `.git`; 0 when the loop reaches "/".
RECURSIVE WalkUp(_, _)
WalkUp(dirs, i) ==
  IF i >= Len(dirs) THEN 0
  ELSE IF ".klendathu" \in dirs[i] THEN i
  ELSE IF ".git" \in dirs[i] THEN i
  ELSE WalkUp(dirs, i + 1)

\* findProjectRoot: the index of the directory returned (1 is process.cwd())
findProjectRoot(dirs) == IF WalkUp(dirs, 1) = 0 THEN 1 ELSE WalkUp(dirs, 1)

RootProbes == [dirs : DirChains, root : {0}]

InitRoot ==
  /\ arch = "inproc" /\ cacheFile = Absent /\ cacheMode = "normal" /\ callerSignals = FALSE
  /\ forceUseCache = FALSE
  /\ Idle
  /\ probe \in RootProbes

\* getCachePath / saveCachedTranscript without KLENDATHU_CACHE
FindRoot ==
  /\ probe.root = 0
  /\ probe' = [probe EXCEPT !.root = findProjectRoot(probe.dirs)]
  /\ UNCHANGED Rest

NextRoot == FindRoot

SpecRoot == InitRoot /\ [][NextRoot]_vars_all

\* ------------------------------------------------- cache path of requests
\* Two requests of one process: what implement() is given and what it adds.
Prompts ==
  { <<"S", "u", "m">>, <<"s", "u", "m">>, <<" ", "s", "u", "m">>, <<"s", "u", "m", "!">>,
    <<"s", "u", "m", ":", ":", ":", "{", "}">>, Rep("a", SlugMax) \o <<"b">>,
    Rep("a", SlugMax) \o <<"1">>, Rep("a", SlugMax - 1) \o <<"!", "!", "b">> }
Schemas == { <<>>, <<"m">>, <<"m", "s">>, <<"s", "m">> }
KeyRequests ==
  [prompt : Prompts, schema : Schemas, context : Contexts, timestamp : {1, 2},
   callStack : {"main", "handler"}]
KeyProbes ==
  [a : KeyRequests, b : KeyRequests, dir : {"cache", "tmp"}, pathA : {<<>>}, pathB : {<<>>},
   computed : {FALSE}]

InitKey ==
  /\ arch = "inproc" /\ cacheFile = Absent /\ cacheMode = "normal" /\ callerSignals = FALSE
  /\ forceUseCache = FALSE
  /\ Idle
  /\ probe \in KeyProbes

\* implement.ts 48-49, part_011 57-58: both requests derive their cache path.
ComputePaths ==
  /\ ~probe.computed
  /\ probe' = [probe EXCEPT
                 !.pathA = getCachePath(probe.dir, getCacheKey(probe.a.prompt, probe.a.schema)),
                 !.pathB = getCachePath(probe.dir, getCacheKey(probe.b.prompt, probe.b.schema)),
                 !.computed = TRUE]
  /\ UNCHANGED <<arch, cacheFile, req, ctx, pc, vars, completion, calls, msgs, computedResult,
                 caller, queried, posts, nReplayed, ri, exitCode, liveCalls, mismatch,
                 lastWrite, varsAtSet, lastOp, cacheMode, callerSignals, signal, toolReturn,
                 forceUseCache, serverListening>>

NextKey == ComputePaths

SpecKey == InitKey /\ [][NextKey]_vars_all

\* ------------------------------------------ two evaluators of one process
\* Code that reaches the globalThis entry of its sandbox:
\*   setGlobal async () => { globalThis.k = 1; return 1; }
\*   retGlobal async () => (globalThis.k || 0)
\* and code that assigns to an entry of its context:
\*   rebindCtx async () => { context.page = { goto() { throw new Error(); } }; return 1; }
IsoCodes == Codes \cup {"setGlobal", "retGlobal", "rebindCtx"}

\* vm.runInContext against the sandbox { context, vars, globalThis }: the
\* globalThis entry is the host's global object, g being its property k;
\* the context entry is the contextVars object that buildContext filled, an
\* ordinary object, c being its page entry.
RunInContext(code, c, v, g) ==
  CASE code = "setGlobal" ->
         [vars |-> v, threw |-> FALSE, value |-> 1, global |-> 1, ctx |-> c]
    [] code = "retGlobal" ->
         [vars |-> v, threw |-> FALSE, value |-> g, global |-> g, ctx |-> c]
    [] code = "rebindCtx" ->
         [vars |-> v, threw |-> FALSE, value |-> 1, global |-> g, ctx |-> "down"]
    [] OTHER ->
         [vars |-> RunCode(code, c, v).vars, threw |-> RunCode(code, c, v).threw,
          value |-> RunCode(code, c, v).value, global |-> g, ctx |-> c]

\* Two requests in flight in one process, each with the evaluator that
\* createVmExecutor made for it (its own context value, vars and promise).
IsoRequests == {1, 2}
IsoProbes ==
  [reqs : [IsoRequests -> [ctx : Contexts, vars : {0}, completion : {Pending}]],
   global : {0},
   last : {[req |-> 0, tool |-> "", value |-> 0, threw |-> FALSE]}]

InitIso ==
  /\ arch = "inproc" /\ cacheFile = Absent /\ cacheMode = "normal" /\ callerSignals = FALSE
  /\ forceUseCache = FALSE
  /\ Idle
  /\ probe \in IsoProbes

\* VmExecutor.eval of request r
IsoEval(r, code) ==
  LET e == probe.reqs[r]
      run == RunInContext(code, e.ctx, e.vars, probe.global)
  IN /\ probe' = [probe EXCEPT !.reqs[r].vars = run.vars,
                                !.reqs[r].ctx = run.ctx,
                                !.global = run.global,
                                !.last = [req |-> r, tool |-> "eval", value |-> run.value,
                                          threw |-> run.threw]]
     /\ UNCHANGED <<arch, cacheFile, req, ctx, pc, vars, completion, calls, msgs,
                    computedResult, caller, queried, posts, nReplayed, ri, exitCode,
                    liveCalls, mismatch, lastWrite, varsAtSet, lastOp, cacheMode,
                    callerSignals, signal, toolReturn, forceUseCache, serverListening>>

\* VmExecutor.setResult of request r
IsoSetResult(r, code) ==
  LET e == probe.reqs[r]
      run == RunInContext(code, e.ctx, e.vars, probe.global)
      set == vmSetResult(run, e.completion)
  IN /\ probe' = [probe EXCEPT !.reqs[r].vars = run.vars,
                                !.reqs[r].ctx = run.ctx,
                                !.reqs[r].completion = set.completion,
                                !.global = run.global,
                                !.last = [req |-> r, tool |-> "set_result", value |-> set.value,
                                          threw |-> ~set.ok]]
     /\ UNCHANGED <<arch, cacheFile, req, ctx, pc, vars, completion, calls, msgs,
                    computedResult, caller, queried, posts, nReplayed, ri, exitCode,
                    liveCalls, mismatch, lastWrite, varsAtSet, lastOp, cacheMode,
                    callerSignals, signal, toolReturn, forceUseCache, serverListening>>

NextIso ==
  \/ \E r \in IsoRequests, code \in IsoCodes : IsoEval(r, code)
  \/ \E r \in IsoRequests, code \in IsoCodes : IsoSetResult(r, code)

SpecIso == InitIso /\ [][NextIso]_vars_all

\* ------------------------------------------------------- serialization
\* JavaScript values as the serializer tells them apart. An error object
\* carries the realm whose Error constructor made it: "host" for objects the
\* caller put into context (and errors thrown by them), "sandbox" for
\* `new Error()` and engine errors of code run by vm.runInContext, whose
\* context has intrinsics of its own. Its message and stack are own
\* properties that are not enumerable, its name is inherited.
MaxDepth == 2
Prim(v) == [t |-> "prim", realm |-> "", v |-> v, items |-> <<>>]
Err(realm, message) == [t |-> "error", realm |-> realm, v |-> message, items |-> <<>>]
Arr(items) == [t |-> "array", realm |-> "", v |-> "", items |-> items]
Obj(entries) == [t |-> "object", realm |-> "", v |-> "", items |-> entries]
Entry(key, value) == [key |-> key, value |-> value]

Leaves == {Prim("1"), Prim("s"), Prim("null"), Err("host", "boom"), Err("sandbox", "boom")}

RECURSIVE Values(_)
Values(depth) ==
  IF depth = 0 THEN Leaves
  ELSE LET inner == Values(depth - 1)
       IN inner \cup {Arr(<<>>)} \cup {Arr(<<x>>) : x \in inner}
                \cup {Arr(<<Prim("1"), x>>) : x \in inner}
                \cup {Obj(<<Entry("k", x)>>) : x \in inner}

\* `value instanceof Error`, evaluated in the host realm
InstanceOfError(value) == value.t = "error" /\ value.realm = "host"

\* Object.entries(value): the own enumerable string-keyed properties
ObjectEntries(value) == IF value.t = "error" THEN <<>> ELSE value.items

\* { __error: true, name, message, stack }
ErrorObject(value) ==
  Obj(<<Entry("__error", Prim("true")), Entry("name", Prim("Error")),
        Entry("message", Prim(value.v)), Entry("stack", Prim("Error: " \o value.v))>>)

RECURSIVE serializeValue(_)
serializeValue(value) ==
  IF InstanceOfError(value) THEN ErrorObject(value)
  ELSE IF value.t = "array"
       THEN Arr([i \in 1..Len(value.items) |-> serializeValue(value.items[i])])
  ELSE IF value.t \in {"object", "error"}
       THEN LET es == ObjectEntries(value)
            IN Obj([i \in 1..Len(es) |-> Entry(es[i].key, serializeValue(es[i].value))])
  ELSE value

SerializeProbes == [input : Values(MaxDepth), output : {Prim("")}, done : {FALSE}]

InitSerialize ==
  /\ arch = "inproc" /\ cacheFile = Absent /\ cacheMode = "normal" /\ callerSignals = FALSE
  /\ forceUseCache = FALSE
  /\ Idle
  /\ probe \in SerializeProbes

\* vm-executor.ts 78, 103: a value returned by agent code is serialized.
Serialize ==
  /\ ~probe.done
  /\ probe' = [probe EXCEPT !.output = serializeValue(probe.input), !.done = TRUE]
  /\ UNCHANGED <<arch, cacheFile, req, ctx, pc, vars, completion, calls, msgs, computedResult,
                 caller, queried, posts, nReplayed, ri, exitCode, liveCalls, mismatch,
                 lastWrite, varsAtSet, lastOp, cacheMode, callerSignals, signal, toolReturn,
                 forceUseCache, serverListening>>

NextSerialize == Serialize

SpecSerialize == InitSerialize /\ [][NextSerialize]_vars_all

\* ------------------------------------------------------ console capture
MaxLogs == 2        \* console calls the code of one eval makes
\* the methods of the console object that eval puts into its sandbox
ShimLevels == {"log", "error", "warn", "info", "debug", "trace"}
\* the console methods agent code calls: those, and one the shim lacks
ConsoleMethods == ShimLevels \cup {"table"}

\* An array of console entries that outlives the eval call.
NewConsoleLogsShared(old) == old

\* `const consoleLogs = []` at the start of every eval call
NewConsoleLogs(old) == <<>>

\* captureConsole(level)(...args): consoleLogs.push({ level, args })
captureConsole(logs, level, args) == Append(logs, [level |-> level, args |-> args])

NoOutput == [set |-> FALSE, hasConsole |-> FALSE, console |-> <<>>]

\* output = { result }, and output.console when consoleLogs is not empty
EvalOutput(logs) ==
  [set |-> TRUE,
   hasConsole |-> Len(logs) > 0,
   console |-> [i \in 1..Len(logs) |->
                  [level |-> logs[i].level,
                   args |-> [j \in 1..Len(logs[i].args) |-> serializeValue(logs[i].args[j])]]]]

\* One evaluator between evals. made is a history of the running eval: the
\* console calls its code has made; earlier tells that an eval before it
\* made console calls.
ConsoleProbes ==
  [running : {FALSE}, made : {<<>>}, consoleLogs : {<<>>}, output : {NoOutput},
   earlier : {FALSE}]

InitConsole ==
  /\ arch = "inproc" /\ cacheFile = Absent /\ cacheMode = "normal" /\ callerSignals = FALSE
  /\ forceUseCache = FALSE
  /\ Idle
  /\ probe \in ConsoleProbes

\* eval(code) is called: a new consoleLogs and a sandbox with the shim
EvalBegin ==
  /\ ~probe.running
  /\ probe' = [probe EXCEPT !.running = TRUE,
                            !.made = <<>>,
                            !.consoleLogs = NewConsoleLogs(probe.consoleLogs),
                            !.output = NoOutput,
                            !.earlier = probe.earlier \/ Len(probe.made) > 0]
  /\ UNCHANGED Rest

\* the code calls console[method](arg): a method of the shim records the
\* call; calling any other is a TypeError that ends the eval with a throw
ConsoleCall(method, arg) ==
  /\ probe.running
  /\ Len(probe.made) < MaxLogs
  /\ IF method \in ShimLevels
     THEN probe' = [probe EXCEPT
                      !.made = Append(probe.made, [level |-> method, arg |-> arg]),
                      !.consoleLogs = captureConsole(probe.consoleLogs, method, <<arg>>)]
     ELSE probe' = [probe EXCEPT !.running = FALSE]
  /\ UNCHANGED Rest

\* the code returns: eval builds its output
EvalReturn ==
  /\ probe.running
  /\ probe' = [probe EXCEPT !.running = FALSE, !.output = EvalOutput(probe.consoleLogs)]
  /\ UNCHANGED Rest

NextConsole ==
  \/ EvalBegin
  \/ \E method \in ConsoleMethods, arg \in {Prim("1"), Prim("s")} : ConsoleCall(method, arg)
  \/ EvalReturn

SpecConsole == InitConsole /\ [][NextConsole]_vars_all

\* A process whose KLENDATHU_CACHE_MODE is ignore or force-use.
InitModes ==
  /\ cacheMode \in CacheModes \ {"normal"}
  /\ callerSignals = FALSE /\ forceUseCache = FALSE /\ InitRequest

SpecModes == InitModes /\ [][Next]_vars_all

\* Callers that pass options.forceUseCache = true with every request, in a
\* process whose KLENDATHU_CACHE_MODE is not force-use.
InitForce ==
  /\ cacheMode \in CacheModes \ {"force-use"}
  /\ callerSignals = FALSE /\ forceUseCache = TRUE /\ InitRequest

SpecForce == InitForce /\ [][Next]_vars_all

\* ------------------------------------------------------------ claims
Resolved(v) == [state |-> "resolved", value |-> v, reason |-> ""]

\* The replay of this request ran its final set_result without error.
ReplaySucceeded == lastOp.phase = "replay" /\ lastOp.tool = "set_result" /\ ~lastOp.err

\* C1: every request settles for the caller: when the agent has finished and
\* the orchestrator awaits the completion promise, the promise is settled (a
\* pending promise there is never settled: nothing of the request runs any more).
C1_SettledWhenAgentFinished == pc = "awaiting" => completion.state # "pending"

\* C2: the completion promise of a request settles at most once: once it is
\* settled, no set_result, bail or non-zero exit changes it, and what the
\* caller receives from the await is that first outcome.
C2_SettlesOnce ==
  [][ (req' = req) =>
        /\ (completion.state # "pending" => completion' = completion)
        /\ (pc = "awaiting" /\ pc' = "done" =>
              caller' = IF completion.state = "resolved" THEN Fulfilled(completion.value)
                        ELSE Rejected(completion.reason)) ]_vars_all

\* C2 witness: a set_result ran to success after a bail had rejected the promise.
C2_Witness ==
  /\ completion.state = "rejected"
  /\ completion.reason \in {BailError(m) : m \in Messages}
  /\ lastOp.phase = "live" /\ lastOp.tool = "set_result" /\ ~lastOp.err

\* An evaluator operation was executed in this step.
EvaluatorStep == req' = req /\ (liveCalls' = liveCalls + 1 \/ nReplayed' > nReplayed)

\* C3: an eval (returning or throwing) and a set_result that throws or fails
\* validation leave the completion promise as it was; a set_result whose
\* value validates resolves a pending promise with that value.
C3_OnlyValidSetResultResolves ==
  [][ EvaluatorStep =>
        /\ (lastOp'.tool = "eval" \/ (lastOp'.tool = "set_result" /\ lastOp'.err)
              => completion' = completion)
        /\ (lastOp'.tool = "set_result" /\ ~lastOp'.err /\ completion.state = "pending"
              => Valid(lastOp'.value) /\ completion' = Resolved(lastOp'.value)) ]_vars_all

\* C3 witness: after an eval and a set_result recorded with an error, a later
\* set_result resolved the promise.
C3_Witness ==
  /\ lastOp.phase = "live" /\ lastOp.tool = "set_result" /\ ~lastOp.err
  /\ completion = Resolved(lastOp.value)
  /\ \E i \in 1..Len(calls) : calls[i].tool = "set_result" /\ calls[i].error

\* C4: when the replay of a cached transcript succeeds, the agent is not
\* invoked in that request and the caller receives the validated value of
\* the replayed final set_result.
C4_ReplayHitSkipsAgent ==
  ReplaySucceeded =>
    /\ ~queried
    /\ Valid(lastOp.value)
    /\ caller.state # "rejected"
    /\ (pc = "awaiting" => completion = Resolved(lastOp.value))
    /\ (pc = "done" => caller = Fulfilled(lastOp.value))

\* C4 witness: a request fulfilled by replay.
C4_Witness == ReplaySucceeded /\ pc = "done" /\ caller.state = "fulfilled"

C6_ReplayReproducesOriginal ==
  (ReplaySucceeded /\ pc = "done" /\ cacheFile.success = "true" /\ cacheFile.ook
     /\ cacheFile.octx = ctx)
    => (caller.value = cacheFile.ovalue /\ varsAtSet = cacheFile.ovars)

\* C7: lookup returns a transcript only for a JSON file whose success field
\* is the boolean true.
C7_LookupOnlySuccessTrue ==
  pc = "hit" => (cacheFile.kind = "json" /\ cacheFile.success = "true")

\* C8: the last transcript a request wrote carries success=true exactly when
\* the caller's promise is fulfilled.
C8_SuccessFlagIffFulfilled ==
  (pc = "done" /\ lastWrite # "none") => (lastWrite = "true" <=> caller.state = "fulfilled")

\* What sequential replay is to post: one eval per recorded eval, in recorded
\* order, then one set_result with the code of the last Ok set_result.
ExpectedPosts(cs) ==
  LET evals == SelectSeq(cs, LAMBDA call : call.tool = "eval")
      oks == SelectSeq(cs, IsOkSetResult)
  IN [i \in 1..Len(evals) |-> Post("eval", evals[i].code)]
       \o (IF Len(oks) = 0 THEN <<>> ELSE <<Post("set_result", oks[Len(oks)].code)>>)

IsPrefix(a, b) == Len(a) <= Len(b) /\ a = SubSeq(b, 1, Len(a))

\* C9: sequential replay posts the recorded evals in recorded order, each
\* once, and after all of them the last Ok set_result, once; recorded calls
\* of other tools are not posted. An aborted replay has posted a prefix.
C9_SequentialReplayOrder ==
  (arch = "subproc" /\ ~queried) =>
    /\ IsPrefix(posts, ExpectedPosts(cacheFile.calls))
    /\ (ReplaySucceeded => posts = ExpectedPosts(cacheFile.calls))

\* C9 witness: the replay of a transcript with two evals, a call of another
\* tool and a set_result has completed.
C9_Witness ==
  /\ arch = "subproc" /\ ReplaySucceeded /\ pc = "done"
  /\ Len(posts) = 3 /\ Len(cacheFile.calls) = 4

\* C10: after an aborted replay the agent's first tool call finds vars empty.
C10_FreshEvaluatorAfterMismatch ==
  (mismatch /\ pc = "live" /\ liveCalls = 0) => vars = 0

\* What the spec takes for a usable cached transcript: a readable JSON file
\* whose success field is the boolean true.
Usable(file) == file.kind = "json" /\ file.success = "true"

\* C11: in force-use mode a request that finds no usable transcript at its
\* cache path (the file is still the one the request found) executes no
\* recorded call, does not invoke the agent and is rejected.
C11_ForceUseMissRejects ==
  (cacheMode = "force-use" /\ pc # "idle" /\ lastWrite = "none" /\ ~Usable(cacheFile))
    => /\ nReplayed = 0
       /\ ~queried
       /\ liveCalls = 0
       /\ (pc = "done" => caller.state = "rejected")

\* C12: in force-use mode the agent is never invoked.
C12_ForceUseNeverQueries == cacheMode = "force-use" => ~queried

\* C13: once the caller's signal has fired the agent is not running any
\* more, and a request whose signal had fired before the agent was started
\* ends rejected.
C13_AbortStopsAgentAndRejects ==
  /\ (signal \in {"preaborted", "aborted"} => pc # "live")
  /\ (signal = "preaborted" /\ pc = "done" => caller.state = "rejected")

\* The completion promise was settled by a bail.
BailSettled ==
  completion.state = "rejected" /\ completion.reason \in {BailError(m) : m \in Messages}

\* C14: a request whose completion promise was settled by bail(message) ends
\* with the caller rejected by "Agent could not complete the task: <message>".
C14_BailRejectsWithMessage ==
  (BailSettled /\ pc = "done") => caller = Rejected(completion.reason)

\* A tool call of the agent, or one call of the sequential replay, ran.
SingleCallStep == liveCalls' = liveCalls + 1 \/ (arch = "subproc" /\ nReplayed' > nReplayed)

C16_EveryCallRecorded ==
  [][ (req' = req /\ liveCalls' = liveCalls + 1 /\ pc' = "live"
         /\ lastOp'.tool \in {"eval", "set_result"})
        => /\ Len(calls') = Len(calls) + 1
           /\ SubSeq(calls', 1, Len(calls)) = calls
           /\ calls'[Len(calls')].tool = lastOp'.tool
           /\ calls'[Len(calls')].error = lastOp'.err ]_vars_all

\* C17: every bail call of the agent appends one ToolCall for bail to the
\* transcript.
C17_BailRecorded ==
  [][ (req' = req /\ liveCalls' = liveCalls + 1 /\ lastOp'.tool = "bail")
        => /\ Len(calls') = Len(calls) + 1
           /\ calls'[Len(calls')].tool = "bail" ]_vars_all

\* C18: after each tool call of a live request the file at the cache path
\* holds the transcript with all calls made so far and success=false, and a
\* write with success=true is followed by no other write of the request.
C18_SavedAfterEachCall ==
  [][ /\ (req' = req /\ liveCalls' = liveCalls + 1 /\ pc' = "live")
           => /\ lastWrite' = "false"
              /\ cacheFile'.kind = "json" /\ cacheFile'.success = "false"
              /\ cacheFile'.calls = calls'
      /\ (req' = req /\ lastWrite = "true" => cacheFile' = cacheFile) ]_vars_all

\* C19: two requests of a process get the same cache path exactly when
\* their instructions are equal and the JSON texts of their schemas are
\* equal, whatever their contexts, timestamps and call stacks.
C19_PathFromInstructionAndSchema ==
  probe # <<>> /\ probe.computed
    => ((probe.pathA = probe.pathB)
          <=> (/\ probe.a.prompt = probe.b.prompt
               /\ JsonStringify(probe.a.schema) = JsonStringify(probe.b.schema)))

\* C19 witness: two requests whose slugs are equal (the instructions differ
\* beyond the 50th character) and whose contexts differ have different paths.
C19_Witness ==
  /\ probe # <<>> /\ probe.computed
  /\ Len(probe.a.prompt) > SlugMax /\ Len(probe.b.prompt) > SlugMax
  /\ probe.a.prompt # probe.b.prompt
  /\ probe.pathA.name.slug = probe.pathB.name.slug
  /\ probe.a.context # probe.b.context
  /\ probe.pathA # probe.pathB

\* what request o's next eval of `code` would return in state p
IsoOutcome(p, o, code) ==
  LET run == RunInContext(code, p.reqs[o].ctx, p.reqs[o].vars, p.global)
  IN <<run.threw, run.value>>

\* C20: a call of one request changes the result of no call the other
\* request could make next: after every eval or set_result of a request,
\* each code gives the other request what it would have given before.
C20_RequestsShareNoState ==
  [][\A o \in IsoRequests :
       (probe'.last.req # o /\ probe' # probe)
         => \A code \in IsoCodes : IsoOutcome(probe', o, code) = IsoOutcome(probe, o, code)]_vars_all

\* C21: no eval or set_result changes the bindings of its request's
\* context: every call of a request runs against the context entries that
\* the request's first call found.
C21_ContextFrozen ==
  [][\A r \in IsoRequests : probe'.reqs[r].ctx = probe.reqs[r].ctx]_vars_all

\* C22: a request made with options.forceUseCache = true runs as it would
\* with KLENDATHU_CACHE_MODE=force-use in the environment: the orchestrator
\* acts on the mode force-use, and the cache lookup goes where the lookup of
\* force-use mode goes (to the replay of what it finds, else to failure
\* without the agent).
C22_ForceUseCacheIsForceUseMode ==
  [][ (forceUseCache /\ req' = req)
        => /\ Mode = "force-use"
           /\ (pc = "ready"
                 => pc' = IF LookupOutcome("force-use", cacheFile).found THEN "hit"
                          ELSE IF arch = "inproc" THEN "done" ELSE "exited") ]_vars_all

\* C23: in ignore mode no transcript is loaded or replayed (no recorded call
\* is executed or posted), and a request that got past its start runs on
\* the agent.
C23_IgnoreSkipsLookup ==
  cacheMode = "ignore"
    => /\ pc \notin {"hit", "replay"}
       /\ nReplayed = 0 /\ posts = <<>> /\ ~mismatch
       /\ (pc \notin {"idle", "ready", "miss"} => queried)

\* C23 witness: in ignore mode the agent runs for a request whose cache path
\* holds a success=true transcript.
C23_Witness ==
  /\ cacheMode = "ignore" /\ req = 1 /\ pc = "live" /\ queried
  /\ Usable(cacheFile) /\ cacheFile \in InitFiles

\* What serialization is to give: an Error-shaped value becomes the object
\* of four fields, an array is mapped element by element, an object entry
\* by entry, a primitive stays.
RECURSIVE Serialized(_)
Serialized(value) ==
  IF value.t = "error" THEN ErrorObject(value)
  ELSE IF value.t = "array"
       THEN Arr([i \in 1..Len(value.items) |-> Serialized(value.items[i])])
  ELSE IF value.t = "object"
       THEN Obj([i \in 1..Len(value.items) |->
                   Entry(value.items[i].key, Serialized(value.items[i].value))])
  ELSE value

\* C25: serializeValue maps every Error-shaped value, at any depth inside
\* arrays and objects, to { __error: true, name, message, stack }, arrays
\* element-wise, objects by their entries, and leaves primitives unchanged.
C25_SerializesErrorsAtAnyDepth ==
  (probe # <<>> /\ probe.done) => probe.output = Serialized(probe.input)

\* C24: the console list an eval returns holds the console calls its code
\* made, in call order, each with the level of the method called and
\* nothing of another eval; the console key is there exactly when the code
\* made at least one console call.
C24_ConsoleCapture ==
  (probe # <<>> /\ probe.output.set)
    => /\ probe.output.hasConsole <=> Len(probe.made) > 0
       /\ Len(probe.output.console) = Len(probe.made)
       /\ \A i \in 1..Len(probe.made) :
            /\ probe.output.console[i].level = probe.made[i].level
            /\ probe.output.console[i].args = <<probe.made[i].arg>>

\* C24 witness: after an eval that made console calls, an eval that called
\* two different console methods has returned.
C24_Witness ==
  /\ probe # <<>> /\ probe.output.set /\ probe.earlier
  /\ Len(probe.made) = 2 /\ probe.made[1].level # probe.made[2].level

\* C26: every recorded call that a replay executes was recorded with an Ok
\* result.
C26_ReplayOnlyOkCalls ==
  [][ (req' = req /\ nReplayed' > nReplayed /\ lastOp'.phase = "replay")
        => lastOp'.recOk ]_vars_all

\* C27: a request that found a success=true transcript holding no Ok
\* set_result goes on to the agent as after a mismatch: nothing of the
\* request is settled or failed by the unusable transcript.
C27_UnreplayableFallsThrough ==
  [][ (req' = req /\ pc = "hit" /\ Usable(cacheFile)
         /\ ~lastSuccessful(loadCachedTranscript(cacheFile).calls).found)
        => /\ pc' = "miss"
           /\ caller' = NoCaller
           /\ completion'.state = "pending"
           /\ exitCode' = 0 ]_vars_all

\* C28: once a bail has settled the completion promise, the agent is
\* stopped: no message of the agent is pumped, and no tool call is executed
\* or recorded.
C28_BailStopsAgent ==
  [][ (req' = req /\ BailSettled)
        => /\ ~PumpMessage
           /\ liveCalls' = liveCalls
           /\ calls' = calls ]_vars_all

\* the calls of a transcript recorded as set_result with an Ok result
OkSetResults(cs) == {i \in 1..Len(cs) : IsOkSetResult(cs[i])}

\* C29: a request records at most one set_result with an Ok result, and
\* after a set_result has succeeded no tool call of the request is executed.
C29_OneOkSetResult ==
  [][ (req' = req)
        => /\ Cardinality(OkSetResults(calls')) <= 1
           /\ (computedResult.set => liveCalls' = liveCalls /\ calls' = calls) ]_vars_all

\* C30: when a request ends fulfilled and its transcript is persisted with
\* success=true, the caller's value is the data recorded for the last Ok
\* set_result of that transcript.
C30_ValueIsLastOkSetResult ==
  (pc = "done" /\ caller.state = "fulfilled" /\ Usable(cacheFile))
    => /\ lastSuccessful(cacheFile.calls).found
       /\ lastSuccessful(cacheFile.calls).data = caller.value

\* The file was written by a request of this program with success=true
\* (octx is set by such a write only).
PersistedSuccess(file) == Usable(file) /\ file.octx # ""

\* C31: a transcript that a request persisted with success=true holds a
\* set_result recorded with an Ok result, so both replays find their final
\* set_result in it.
C31_SuccessHasOkSetResult ==
  PersistedSuccess(cacheFile)
    => /\ OkSetResults(cacheFile.calls) # {}
       /\ lastSuccessful(cacheFile.calls).found
       /\ ~generateCombinedCode(cacheFile.calls).throws

\* C31 witness: the lookup of a second request returned the transcript that
\* the first request persisted.
C31_Witness == req = 2 /\ pc = "hit" /\ PersistedSuccess(cacheFile)

\* C32: once a request whose completion promise is resolved has written its
\* final transcript with success=true, no later step of the request changes
\* the file.
C32_FinalTranscriptKept ==
  [][ (req' = req /\ lastWrite = "true" /\ completion.state = "resolved")
        => (cacheFile' = cacheFile /\ lastWrite' = "true") ]_vars_all

C34_WriteFailureSwallowed ==
  (probe # <<>> /\ probe.saved)
    => /\ ~probe.threw
       /\ (~(probe.mkdirOk /\ probe.writeOk) => probe.after = probe.before)
       /\ (probe.mkdirOk /\ probe.writeOk /\ (Len(probe.calls) > 0 \/ probe.msgs)
             => /\ probe.after.calls = probe.calls
                /\ probe.after.success = (IF probe.success THEN "true" ELSE "false"))

\* C34 witness: the save of a transcript with calls has returned although
\* the file could not be written, the file that was there being kept.
C34_Witness ==
  /\ probe # <<>> /\ probe.saved /\ ~probe.threw
  /\ probe.mkdirOk /\ ~probe.writeOk /\ Len(probe.calls) = 2
  /\ probe.before.kind = "json" /\ probe.after = probe.before

\* the directories of a chain that contain marker m
Holding(dirs, m) == {i \in 1..Len(dirs) : m \in dirs[i]}
Nearest(is) == CHOOSE i \in is : \A j \in is : i <= j

\* C35: the project root is the nearest ancestor of the working directory
\* holding .klendathu; without any, the nearest holding .git; without
\* either, the working directory.
C35_ProjectRootPrefersKlendathu ==
  (probe # <<>> /\ probe.root # 0)
    => probe.root = IF Holding(probe.dirs, ".klendathu") # {}
                    THEN Nearest(Holding(probe.dirs, ".klendathu"))
                    ELSE IF Holding(probe.dirs, ".git") # {}
                    THEN Nearest(Holding(probe.dirs, ".git"))
                    ELSE 1

\* The slug of a text: lowercased, each run of non-alphanumeric characters
\* replaced by one underscore, the underscores at both ends removed.
SlugOf(text) ==
  TrimRight(TrimLeft(ReplaceRuns([i \in 1..Len(text) |-> Lower(text[i])]), "_"), "_")

FirstChars(t, n) == SubSeq(t, 1, IF Len(t) < n THEN Len(t) ELSE n)

\* C36: the cache key of a request is the first 50 characters of the slug of
\* its instruction, followed by the SHA-256 digest of
\* instruction + ":::" + JSON(schema).
C36_KeyIsTruncatedSlugAndDigest ==
  (probe # <<>> /\ probe.computed)
    => /\ probe.pathA.name.slug = FirstChars(SlugOf(probe.a.prompt), SlugMax)
       /\ probe.pathA.name.hash
            = sha256(probe.a.prompt \o <<":", ":", ":">> \o JsonStringify(probe.a.schema))

\* ---------------------------------------------------------------------
\* investigate(): the status stream and the summary promise.  The state of
\* one call is held in probe: the position of the main promise's body, the
\* lines the agent process has written to its stderr, the messages the
\* onStderr callback has collected, the summary promise, and one iterator
\* obtained from the stderr property.
MaxLines == 3

LineTypes == {"turn", "summary", "junk"}

ExitCodes == {0, 1}

\* StatusMessageSchema.parse(JSON.parse(line)): a line that is no status
\* message throws and is dropped by the caller
IsStatusMessage(line) == line.type # "junk"

NoMessage == [type |-> "none", seq |-> 0]

PendingSummary == [state |-> "pending", value |-> NoMessage, error |-> ""]

summaryResolve(p, message) ==
  IF p.state = "pending" THEN [p EXCEPT !.state = "resolved", !.value = message] ELSE p

DebuggerExitMessage(code) == "Debugger exited with code " \o ToString(code)

summaryReject(p, code) ==
  IF p.state = "pending" THEN [p EXCEPT !.state = "rejected", !.error = DebuggerExitMessage(code)]
                         ELSE p

\* onStderr: the message is collected, a summary message resolves the
\* summary promise
onStderr(st, message) ==
  [st EXCEPT !.stderrMessages = Append(@, message),
             !.summary = IF message.type = "summary" THEN summaryResolve(@, message) ELSE @]

\* the messages an iterator that has waited for the main promise still
\* yields before it ends
RemainingNone(messages, index) == <<>>

Remaining(messages, index) == SubSeq(messages, index + 1, Len(messages))

InvestigateStart ==
  [ mainPc |-> "create", main |-> "pending", written |-> 0, emitted |-> <<>>,
    stderrMessages |-> <<>>, exitCode |-> -1, summary |-> PendingSummary,
    index |-> 0, itPc |-> "loop", yielded |-> <<>> ]

InitInvestigate ==
  /\ arch = "inproc" /\ cacheFile = Absent /\ cacheMode = "normal" /\ callerSignals = FALSE
  /\ forceUseCache = FALSE
  /\ Idle
  /\ probe = InvestigateStart

\* createMcpServer returns, or throws and rejects the main promise
CreateServer(ok) ==
  /\ probe.mainPc = "create"
  /\ probe' = IF ok THEN [probe EXCEPT !.mainPc = "agent"]
                    ELSE [probe EXCEPT !.mainPc = "done", !.main = "rejected"]
  /\ UNCHANGED Rest

\* the agent process writes one line to its stderr; runAgent parses it and
\* hands a status message to onStderr
AgentWrite(type) ==
  /\ probe.mainPc = "agent" /\ probe.exitCode = -1
  /\ probe.written < MaxLines
  /\ LET line == [type |-> type, seq |-> probe.written + 1]
         st == [probe EXCEPT !.written = @ + 1,
                             !.emitted = IF IsStatusMessage(line) THEN Append(@, line) ELSE @]
     IN probe' = IF IsStatusMessage(line) THEN onStderr(st, line) ELSE st
  /\ UNCHANGED Rest

\* the agent process has exited and its streams are closed: runAgent returns
AgentClose(code) ==
  /\ probe.mainPc = "agent" /\ probe.exitCode = -1
  /\ probe' = [probe EXCEPT !.exitCode = code, !.mainPc = "closing"]
  /\ UNCHANGED Rest

\* mcpServer.close() has returned: the main promise settles by the exit code
MainSettle ==
  /\ probe.mainPc = "closing"
  /\ probe' = IF probe.exitCode # 0
                THEN [probe EXCEPT !.summary = summaryReject(@, probe.exitCode),
                                   !.main = "rejected", !.mainPc = "done"]
                ELSE [probe EXCEPT !.main = "fulfilled", !.mainPc = "done"]
  /\ UNCHANGED Rest

\* the iterator's loop: yield the next collected message, or wait for the
\* main promise
IterNext ==
  /\ probe.itPc = "loop"
  /\ probe' = IF probe.index < Len(probe.stderrMessages)
                THEN [probe EXCEPT !.yielded = Append(@, probe.stderrMessages[probe.index + 1]),
                                   !.index = @ + 1, !.itPc = "delay"]
                ELSE [probe EXCEPT !.itPc = "await"]
  /\ UNCHANGED Rest

\* the 10 ms delay after a yield
IterDelay ==
  /\ probe.itPc = "delay"
  /\ probe' = [probe EXCEPT !.itPc = "loop"]
  /\ UNCHANGED Rest

\* the main promise has settled: yield what is left and end
IterSettled ==
  /\ probe.itPc = "await" /\ probe.main # "pending"
  /\ probe' = [probe EXCEPT !.yielded = @ \o Remaining(probe.stderrMessages, probe.index),
                            !.index = Len(probe.stderrMessages), !.itPc = "done"]
  /\ UNCHANGED Rest

NextInvestigate ==
  \/ \E ok \in BOOLEAN : CreateServer(ok)
  \/ \E type \in LineTypes : AgentWrite(type)
  \/ \E code \in ExitCodes : AgentClose(code)
  \/ MainSettle
  \/ IterNext
  \/ IterDelay
  \/ IterSettled

\* the consumer keeps pulling from the iterator and the timers fire
SpecInvestigate ==
  /\ InitInvestigate /\ [][NextInvestigate]_vars_all
  /\ WF_vars_all(IterNext) /\ WF_vars_all(IterDelay) /\ WF_vars_all(IterSettled)

StreamInOrder ==
  /\ IsPrefix(probe.yielded, probe.emitted)
  /\ (probe.itPc = "done" => probe.main # "pending" /\ probe.yielded = probe.emitted)

\* C37: an iterator of the stderr stream yields the status messages of the
\* agent process once each and in arrival order, has yielded all of them
\* when it ends, and ends once the main promise has settled.
C37_StderrStreamComplete ==
  /\ []StreamInOrder
  /\ ((probe.main # "pending") ~> (probe.itPc = "done"))

\* C37 witness: an iterator that waited for the main promise while the agent
\* was still writing has ended after a rejected investigation, two messages
\* yielded.
C37_Witness ==
  /\ probe.itPc = "done" /\ probe.main = "rejected" /\ probe.exitCode = 1
  /\ Len(probe.yielded) >= 2 /\ probe.written > Len(probe.yielded)

\* C38: when the investigation has completed the summary promise is
\* settled: resolved with the summary message after exit code 0, rejected
\* after another exit code.
C38_SummarySettles ==
  (probe.main # "pending" /\ probe.exitCode # -1)
    => IF probe.exitCode = 0
         THEN probe.summary.state = "resolved" /\ probe.summary.value.type = "summary"
         ELSE probe.summary.state = "rejected"

\* ---------------------------------------------------------------------
\* createMcpServer(): close() of the returned instance.  probe holds the
\* isClosed flag, the HTTP server with its open connections, the number of
\* times its close was invoked, and the callers of close().
MaxClosers == 3

MaxConns == 2

MaxCloseCalls == 2

Closers == 1..MaxClosers

NoErr == ""

\* httpServer.close(cb): a listening server stops listening and calls back
\* without error when its connections have ended; a server that is not
\* listening calls back with ERR_SERVER_NOT_RUNNING
httpServerClose(server) ==
  IF server = "listening" THEN [server |-> "closing", err |-> NoErr]
                          ELSE [server |-> server, err |-> "ERR_SERVER_NOT_RUNNING"]

\* the callback passed to httpServer.close
CloseSettles(err) ==
  IF err # NoErr /\ err # "ERR_SERVER_NOT_RUNNING" THEN "rejected" ELSE "resolved"

\* the guard at the head of close()
AlreadyClosedNever(isClosed) == FALSE

AlreadyClosed(isClosed) == isClosed

IdleCloser == [pc |-> "idle", err |-> NoErr, returned |-> 0, rejected |-> FALSE]

InitClose ==
  /\ arch = "inproc" /\ cacheFile = Absent /\ cacheMode = "normal" /\ callerSignals = FALSE
  /\ forceUseCache = FALSE
  /\ Idle
  /\ probe = [ isClosed |-> FALSE, server |-> "listening", connections |-> 0,
               closeInvoked |-> 0, callers |-> [c \in Closers |-> IdleCloser] ]

\* a client connects to the listening server
Connect ==
  /\ probe.server = "listening" /\ probe.connections < MaxConns
  /\ probe' = [probe EXCEPT !.connections = @ + 1]
  /\ UNCHANGED Rest

\* a connection ends; the last one to end lets a closing server finish
Disconnect ==
  /\ probe.connections > 0
  /\ probe' = [probe EXCEPT !.connections = @ - 1]
  /\ UNCHANGED Rest

\* a caller calls close(): it returns at once when isClosed is set, else
\* sets it, invokes httpServer.close and waits for the callback
Close(c) ==
  /\ probe.callers[c].pc = "idle" /\ probe.callers[c].returned < MaxCloseCalls
  /\ probe' =
       IF AlreadyClosed(probe.isClosed)
         THEN [probe EXCEPT !.callers[c].returned = @ + 1]
         ELSE LET h == httpServerClose(probe.server)
              IN [probe EXCEPT !.isClosed = TRUE, !.server = h.server,
                               !.closeInvoked = @ + 1,
                               !.callers[c].pc = "awaiting", !.callers[c].err = h.err]
  /\ UNCHANGED Rest

\* the callback of httpServer.close runs: the caller's promise settles
CloseCallback(c) ==
  /\ probe.callers[c].pc = "awaiting"
  /\ probe.callers[c].err # NoErr \/ probe.connections = 0
  /\ probe' = [probe EXCEPT
       !.server = IF probe.callers[c].err = NoErr THEN "closed" ELSE @,
       !.callers[c] = [pc |-> "idle", err |-> NoErr, returned |-> @.returned + 1,
                       rejected |-> @.rejected \/ CloseSettles(@.err) = "rejected"]]
  /\ UNCHANGED Rest

NextClose ==
  \/ Connect
  \/ Disconnect
  \/ \E c \in Closers : Close(c)
  \/ \E c \in Closers : CloseCallback(c)

SpecClose == InitClose /\ [][NextClose]_vars_all

\* C39: whatever the number and the interleaving of the close() calls, none
\* of them rejects and httpServer.close is invoked at most once.
C39_CloseIdempotent ==
  /\ probe.closeInvoked <= 1
  /\ \A c \in Closers : ~probe.callers[c].rejected

\* C39 witness: a second caller's close() has returned while the first
\* caller still waits for the server to close, and a caller's second call
\* has returned as well.
C39_Witness ==
  /\ probe.closeInvoked = 1
  /\ \E c, d \in Closers :
       /\ probe.callers[c].pc = "awaiting"
       /\ probe.callers[d].returned = MaxCloseCalls

====
